---- MODULE Spec2Model ----
(***************************************************************************)
(* A model of the clearskies-cortex team hierarchy backend                 *)
(* (CortexTeamRelationshipBackend): the lazy, cached build of the closure  *)
(* table in records(), and the materialization of the table from the edge  *)
(* list (_fetch_and_map_relationship_data / _build_mapping_records).       *)
(*                                                                         *)
(* and of its paginated record source (CortexBackend): the unwrapping of   *)
(* the records from a response body in map_records_response and the page   *)
(* cursor of get_next_page_data_from_response; and of the StringList       *)
(* column (from_backend / to_backend).                                     *)
(*                                                                         *)
(* Seven specifications share the definitions:                             *)
(*   MatSpec  one materialization pass over an edge list drawn from        *)
(*            EdgeLists, the scan one edge at a time, the walk one root    *)
(*            at a time;                                                   *)
(*   Spec     queries running records() concurrently, one source line     *)
(*            per step;                                                    *)
(*   SeqSpec  the same steps, a query starting only when no other query    *)
(*            is in progress;                                              *)
(*   PageSpec one response drawn from Responses: its records unwrapped and *)
(*            its cursor computed, or its cursor alone;                    *)
(*   PullSpec the loop that requests page 0 and then the page each cursor  *)
(*            names, against a server of a fixed number of pages;          *)
(*   FeedSpec one materialization pass whose edge list is fetched from a   *)
(*            relationship feed served in pages;                           *)
(*   StrSpec  a column value saved by to_backend and read by from_backend, *)
(*            or a backend value read by from_backend.                     *)
(***************************************************************************)
EXTENDS Integers, Sequences, FiniteSets, TLC

\* ------------------------------------------------------------------ bounds

\* longest edge list the remote feed returns
MaxEdges == 3
\* deepest call stack of the recursive walk before the interpreter raises
\* RecursionError (CPython: 1000 frames; scaled down, above the depth of every
\* acyclic edge list over Nodes)
RecursionLimit == 5

\* threads that call records() on the one backend instance
NumThreads == 2
\* queries issued in one run
MaxQueries == 2

\* team tags
Nodes == {"R", "A", "B", "C"}

\* one edge of the feed, as _fetch_and_map_relationship_data reads it
Edge == [parent_team_tag : Nodes, child_team_tag : Nodes]

RECURSIVE SeqsUpTo(_, _)
SeqsUpTo(S, n) ==
    IF n = 0 THEN {<<>>}
    ELSE LET shorter == SeqsUpTo(S, n - 1)
         IN  shorter \cup {Append(s, x) : s \in {q \in shorter : Len(q) = n - 1}, x \in S}

\* every edge list of at most MaxEdges edges
EdgeLists == SeqsUpTo(Edge, MaxEdges)

\* --------------------------------------------------------- the edge scan

\* the three dictionaries before the first edge
EmptyScan ==
    [root_categories |-> <<>>, known_children |-> {}, relationships |-> <<>>]

\* a lookup that keeps only the first child of a category
RelGet_FirstChildOnly(relationships, category) ==
    IF category \in DOMAIN relationships
    THEN SubSeq(relationships[category], 1, 1)
    ELSE <<>>

RECURSIVE Distinct(_)
\* a list without the repetitions of its items
Distinct(items) ==
    IF Len(items) = 0 THEN <<>>
    ELSE LET front == Distinct(SubSeq(items, 1, Len(items) - 1))
             x     == items[Len(items)]
         IN  IF \E i \in 1..Len(front) : front[i] = x THEN front ELSE Append(front, x)

\* a lookup that gives each child once
RelGet_EachChildOnce(relationships, category) ==
    IF category \in DOMAIN relationships
    THEN Distinct(relationships[category])
    ELSE <<>>

\* relationships.get(category, [])
RelGet(relationships, category) ==
    IF category \in DOMAIN relationships THEN relationships[category] ELSE <<>>

\* root_categories[parent_category] = parent_category: a dict keeps the position
\* of a key it already holds and appends a new one
DictAdd(keys, k) ==
    IF \E i \in 1..Len(keys) : keys[i] = k THEN keys ELSE Append(keys, k)

\* a del that leaves the key in place
DictDel_KeepsKey(keys, k) == keys

\* del root_categories[child_category]
DictDel(keys, k) == SelectSeq(keys, LAMBDA x : x # k)

\* one iteration of the loop over relationship_data
ScanStep(s, relationship) ==
    LET child_category  == relationship.child_team_tag
        parent_category == relationship.parent_team_tag
        rel1 == IF parent_category \in DOMAIN s.relationships
                THEN s.relationships
                ELSE (parent_category :> <<>>) @@ s.relationships
        rel2 == [rel1 EXCEPT ![parent_category] = Append(@, child_category)]
        kc   == s.known_children \cup {child_category}
        roots1 == IF parent_category \notin kc
                  THEN DictAdd(s.root_categories, parent_category)
                  ELSE s.root_categories
        roots2 == IF \E i \in 1..Len(roots1) : roots1[i] = child_category
                  THEN DictDel(roots1, child_category)
                  ELSE roots1
    IN  [root_categories |-> roots2, known_children |-> kc, relationships |-> rel2]

RECURSIVE ScanFrom(_, _, _)
ScanFrom(s, relationship_data, i) ==
    IF i > Len(relationship_data) THEN s
    ELSE ScanFrom(ScanStep(s, relationship_data[i]), relationship_data, i + 1)

\* the whole loop over relationship_data
ScanAll(relationship_data) == ScanFrom(EmptyScan, relationship_data, 1)

\* --------------------------------------------------------------- the walk

\* a flag that marks the topmost ancestor instead of the nearest
IsParentFlag_Topmost(level, parents) == IF level = 0 THEN 1 ELSE 0

\* "isParent": 1 if level + 1 == len(parents) else 0
IsParentFlag(level, parents) == IF level + 1 = Len(parents) THEN 1 ELSE 0

\* a level counted from 1
LevelOf_OneBased(level, parents) == level + 1

\* "level": level, the index enumerate() gives the parent
LevelOf(level, parents) == level

\* rows for the immediate parent only: an adjacency list, not a closure
OwnRows_DirectOnly(category, parents, uuid) ==
    [i \in 1..(IF Len(parents) = 0 THEN 0 ELSE 1) |->
        [id            |-> uuid + i,
         parentTeamTag |-> parents[Len(parents)],
         childTeamTag  |-> category,
         isParent      |-> 1,
         level         |-> Len(parents) - 1]]

\* rows for the parents from the nearest up to the topmost
OwnRows_Reversed(category, parents, uuid) ==
    [i \in 1..Len(parents) |->
        [id            |-> uuid + i,
         parentTeamTag |-> parents[Len(parents) + 1 - i],
         childTeamTag  |-> category,
         isParent      |-> IsParentFlag(Len(parents) - i, parents),
         level         |-> LevelOf(Len(parents) - i, parents)]]

\* the rows one call appends for its own category; uuid4() is modelled as a
\* fresh number, uuid being how many ids were drawn before
OwnRows(category, parents, uuid) ==
    [i \in 1..Len(parents) |->
        [id            |-> uuid + i,
         parentTeamTag |-> parents[i],
         childTeamTag  |-> category,
         isParent      |-> IsParentFlag(i - 1, parents),
         level         |-> LevelOf(i - 1, parents)]]

\* a call that appends its own rows and does not go down to the children
BuildMappingRecords_NoDescent(category, relationships, parents, uuid) ==
    [err  |-> FALSE,
     rows |-> OwnRows(category, parents, uuid),
     uuid |-> uuid + Len(parents)]

RECURSIVE BuildMappingRecords(_, _, _, _)
RECURSIVE ExtendChildren(_, _, _, _, _, _)

\* the loop over relationships.get(category, []): mapped_records.extend(...) for
\* each child, the walk of child k starting with the ids drawn so far
ExtendChildren(children, k, category, relationships, parents, acc) ==
    IF acc.err \/ k > Len(children) THEN acc
    ELSE LET sub == BuildMappingRecords(children[k], relationships,
                                        Append(parents, category), acc.uuid)
         IN  ExtendChildren(children, k + 1, category, relationships, parents,
                 [err  |-> sub.err,
                  rows |-> acc.rows \o sub.rows,
                  uuid |-> sub.uuid])

\* _build_mapping_records: err is RecursionError, rows the returned list, uuid
\* the number of ids drawn when it returns
BuildMappingRecords(category, relationships, parents, uuid) ==
    IF Len(parents) >= RecursionLimit
    THEN [err |-> TRUE, rows |-> <<>>, uuid |-> uuid]
    ELSE ExtendChildren(RelGet(relationships, category), 1, category,
             relationships, parents,
             [err  |-> FALSE,
              rows |-> OwnRows(category, parents, uuid),
              uuid |-> uuid + Len(parents)])

\* an index that counts the rows from 1
BuildIdIndex_FromOne(records) ==
    [k \in {records[i].id : i \in 1..Len(records)} |->
        CHOOSE i \in 1..Len(records) :
            records[i].id = k /\ \A j \in (i + 1)..Len(records) : records[j].id # k]

\* id_index = {str(record["id"]): index for (index, record) in enumerate(...)};
\* Python's index is 0-based, the sequence position here is index + 1
BuildIdIndex(records) ==
    [k \in {records[i].id : i \in 1..Len(records)} |->
        (CHOOSE i \in 1..Len(records) :
            records[i].id = k /\ \A j \in (i + 1)..Len(records) : records[j].id # k) - 1]

RECURSIVE WalkRoots(_, _, _, _)
\* for root in root_categories: mapped_records.extend(...)
WalkRoots(roots, k, relationships, acc) ==
    IF acc.err \/ k > Len(roots) THEN acc
    ELSE LET sub == BuildMappingRecords(roots[k], relationships, <<>>, acc.uuid)
         IN  WalkRoots(roots, k + 1, relationships,
                 [err  |-> sub.err,
                  rows |-> acc.rows \o sub.rows,
                  uuid |-> sub.uuid])

\* _fetch_and_map_relationship_data on the fetched edge list: the scan, the
\* walk from every root and the id index
FetchAndMap(relationship_data, uuid) ==
    LET s == ScanAll(relationship_data)
        w == WalkRoots(s.root_categories, 1, s.relationships,
                       [err |-> FALSE, rows |-> <<>>, uuid |-> uuid])
    IN  [err      |-> w.err,
         records  |-> w.rows,
         id_index |-> IF w.err THEN <<>> ELSE BuildIdIndex(w.rows),
         uuid     |-> w.uuid]

\* ----------------------------------------------- the paginated record source

\* largest page number a response names
MaxPage == 2
\* most keys a response body holds besides page, totalPages and total
MaxExtraKeys == 2

\* JSON values as json() returns them, each tagged with its Python type.
\* None is what dict.get(key, None) returns for a key the dict lacks.
None == [t |-> "None"]
JNum(n) == [t |-> "int", n |-> n]
JStr(s) == [t |-> "str", s |-> s]
JList(items) == [t |-> "list", items |-> items]
\* a dict keeps its keys in insertion order: a sequence of key, value pairs
JDict(items) == [t |-> "dict", items |-> items]
KV(k, v) == [k |-> k, v |-> v]

\* isinstance(x, dict), isinstance(x, list), x is None
IsDict(x) == x.t = "dict"
IsList(x) == x.t = "list"
IsNone(x) == x.t = "None"

\* response_data.get(key, None)
DictGet(d, key) ==
    IF \E i \in 1..Len(d.items) : d.items[i].k = key
    THEN d.items[CHOOSE i \in 1..Len(d.items) : d.items[i].k = key].v
    ELSE None

\* counts read from the response headers
ExtractCount_FromHeaders(response_headers, response_data) ==
    IF IsNone(response_headers) THEN <<None, None>>
    ELSE <<DictGet(response_headers, "total"), DictGet(response_headers, "totalPages")>>

\* extract_count_from_response: (total, totalPages) of a dict body, the headers
\* are not looked at
ExtractCount(response_headers, response_data) ==
    IF ~IsDict(response_data) THEN <<None, None>>
    ELSE <<DictGet(response_data, "total"), DictGet(response_data, "totalPages")>>

\* a successor test that takes the last page for a page with a successor
HasNextPage_Inclusive(page, total_pages_from_response) ==
    /\ ~IsNone(page)
    /\ ~IsNone(total_pages_from_response)
    /\ page.n + 1 <= total_pages_from_response.n

\* page is not None and total_pages_from_response is not None and
\* page + 1 < total_pages_from_response
HasNextPage(page, total_pages_from_response) ==
    /\ ~IsNone(page)
    /\ ~IsNone(total_pages_from_response)
    /\ page.n + 1 < total_pages_from_response.n

\* a token that names the page just read
NextPageToken_SamePage(page) == page.n

\* page + 1
NextPageToken(page) == page.n + 1

\* next_page_data = {}, and next_page_data[key] = value
EmptyCursor == [k \in {} |-> 0]
CursorPut(next_page_data, key, value) == (key :> value) @@ next_page_data

\* get_next_page_data_from_response: a response is its content (empty or not),
\* the body json() parses from it, and its headers
GetNextPageData(pagination_parameter_name, response) ==
    LET response_data == IF response.content THEN response.body ELSE JDict(<<>>)
    IN  IF ~IsDict(response_data) THEN EmptyCursor
        ELSE LET count_info  == ExtractCount(None, response_data)
                 total_count == count_info[1]
                 total_pages == count_info[2]
                 c1 == IF ~IsNone(total_count)
                       THEN CursorPut(EmptyCursor, "total_count", total_count.n)
                       ELSE EmptyCursor
                 c2 == IF ~IsNone(total_pages)
                       THEN CursorPut(c1, "total_pages", total_pages.n)
                       ELSE c1
                 page == DictGet(response_data, "page")
                 total_pages_from_response == DictGet(response_data, "totalPages")
             IN  IF HasNextPage(page, total_pages_from_response)
                 THEN CursorPut(c2, pagination_parameter_name, NextPageToken(page))
                 ELSE c2

\* the keys map_records_response filters out
PaginationKeys == {"page", "totalPages", "total"}

\* filtered_data = {k: v for k, v in response_data.items() if k not in (...)}
FilteredData(response_data) ==
    SelectSeq(response_data.items, LAMBDA kv : kv.k \notin PaginationKeys)

\* isinstance(v, list) and all(isinstance(item, dict) for item in v)
ListOfDicts(v) == IsList(v) /\ \A i \in 1..Len(v.items) : IsDict(v.items[i])

\* a hand-over of the filtered dict whenever the body is a dict
HandedToParent_Filtered(response_data) ==
    IF IsDict(response_data)
    THEN LET filtered_data == FilteredData(response_data)
         IN  IF Len(filtered_data) > 0 /\ ListOfDicts(filtered_data[1].v)
             THEN filtered_data[1].v
             ELSE JDict(filtered_data)
    ELSE response_data

\* map_records_response: what it passes to super().map_records_response, the
\* value of the first remaining key when that is a list of dicts, the
\* response_data it was given otherwise
HandedToParent(response_data) ==
    IF IsDict(response_data)
    THEN LET filtered_data == FilteredData(response_data)
             first_item    == filtered_data[1]
         IN  IF Len(filtered_data) > 0 /\ ListOfDicts(first_item.v)
             THEN first_item.v
             ELSE response_data
    ELSE response_data

\* ValueError
ShapeError == [err |-> TRUE, rows |-> <<>>]

\* the framework's map_records_response on a list: the items are the records
ParentMapList(response_data) ==
    IF ListOfDicts(response_data)
    THEN [err |-> FALSE, rows |-> response_data.items]
    ELSE ShapeError

\* the framework's map_records_response (ApiBackend): a list is the records; in
\* a dict the first value that is a list is; a dict without a list value is a
\* single record unless it is empty; anything else is a ValueError
ParentMapRecordsResponse(response_data) ==
    IF IsList(response_data) THEN ParentMapList(response_data)
    ELSE IF ~IsDict(response_data) THEN ShapeError
    ELSE IF \E i \in 1..Len(response_data.items) : IsList(response_data.items[i].v)
         THEN ParentMapList(response_data.items[
                  CHOOSE i \in 1..Len(response_data.items) :
                      /\ IsList(response_data.items[i].v)
                      /\ \A j \in 1..(i - 1) : ~IsList(response_data.items[j].v)].v)
    ELSE IF Len(response_data.items) > 0
         THEN [err |-> FALSE, rows |-> <<response_data>>]
    ELSE ShapeError

\* map_records_response
MapRecordsResponse(response_data) ==
    ParentMapRecordsResponse(HandedToParent(response_data))

\* an unwrapping that pops the pagination keys from the dict it was given
ResponseAfterMap_Popped(response_data) ==
    IF IsDict(response_data) THEN JDict(FilteredData(response_data))
    ELSE response_data

\* the caller's response_data once map_records_response has returned: the
\* filter builds a new dict and nothing is assigned into response_data
ResponseAfterMap(response_data) == response_data

\* sample records, and the values a body holds besides the pagination fields
Entity1 == JDict(<<KV("tag", JStr("entity-1"))>>)
Entity2 == JDict(<<KV("tag", JStr("entity-2"))>>)
ExtraPairs ==
    { KV("status", JStr("ok")),
      KV("tags", JList(<<JStr("a")>>)),
      KV("entities", JList(<<Entity1, Entity2>>)),
      KV("teams", JList(<<>>)) }

\* the other keys of a body, in order, no key twice
ExtraSeqs ==
    { s \in SeqsUpTo(ExtraPairs, MaxExtraKeys) :
        \A i, j \in 1..Len(s) : i # j => s[i].k # s[j].k }

\* a field of the body: missing, or a number
FieldPairs(key, value) == IF IsNone(value) THEN <<>> ELSE <<KV(key, value)>>
PageValues       == {None} \cup {JNum(n) : n \in 0..MaxPage}
TotalPagesValues == {None} \cup {JNum(n) : n \in 0..(MaxPage + 1)}
TotalValues      == {None, JNum(0), JNum(50)}

\* dict bodies: the pagination fields after or before the other keys
DictBodies ==
    { JDict(IF front THEN pag \o extra ELSE extra \o pag) :
        front \in BOOLEAN, extra \in ExtraSeqs,
        pag \in { FieldPairs("page", p) \o FieldPairs("totalPages", tp)
                      \o FieldPairs("total", t) :
                  p \in PageValues, tp \in TotalPagesValues, t \in TotalValues } }

\* every body a response may carry: a dict, a bare list, a bare string
Bodies ==
    DictBodies \cup {JList(<<Entity1, Entity2>>), JList(<<>>), JStr("ok")}

\* the headers of a response: none that count, or counts the body lacks
HeaderSets ==
    { JDict(<<>>),
      JDict(<<KV("total", JNum(7)), KV("totalPages", JNum(9))>>) }

\* the configured names of the pagination parameter
ParameterNames == {"page", "pageNumber"}

\* ------------------------------------------------------ the StringList column

\* longest string, in characters, and longest list a column value holds
MaxStrLen == 2
MaxListLen == 2

\* a str is the sequence of its characters
Alphabet == {"a", ","}
Strings == SeqsUpTo(Alphabet, MaxStrLen)
NoCommaStrings == SeqsUpTo(Alphabet \ {","}, MaxStrLen)

RECURSIVE SplitFrom(_, _, _, _)
\* value.split(sep): the pieces between the separators, the empty pieces
\* included, so at least one piece
SplitFrom(value, sep, i, piece) ==
    IF i > Len(value) THEN <<piece>>
    ELSE IF value[i] = sep
         THEN <<piece>> \o SplitFrom(value, sep, i + 1, <<>>)
         ELSE SplitFrom(value, sep, i + 1, Append(piece, value[i]))
Split(value, sep) == SplitFrom(value, sep, 1, <<>>)

RECURSIVE Join(_, _)
\* sep.join(items)
Join(sep, items) ==
    IF Len(items) = 0 THEN <<>>
    ELSE IF Len(items) = 1 THEN items[1]
    ELSE items[1] \o <<sep>> \o Join(sep, Tail(items))

\* AttributeError: the value has no split
NoSplit == [err |-> TRUE, list |-> <<>>]

\* a conversion that drops the empty pieces
FromBackend_DropEmpty(value) ==
    IF IsList(value) THEN [err |-> FALSE, list |-> value.items]
    ELSE IF IsNone(value) THEN NoSplit
    ELSE [err |-> FALSE,
          list |-> SelectSeq(Split(value.s, ","), LAMBDA piece : piece # <<>>)]

\* StringList.from_backend: a list is returned as it is, anything else is
\* split at the commas; None has no split
FromBackend(value) ==
    IF IsList(value) THEN [err |-> FALSE, list |-> value.items]
    ELSE IF IsNone(value) THEN NoSplit
    ELSE [err |-> FALSE, list |-> Split(value.s, ",")]

\* StringList.to_backend on data = {name: list} or on data without the name:
\* the value of the name in the dict it returns, None when there is none
ToBackendValue(data) ==
    IF ~data.has THEN None
    ELSE JStr(Join(",", data.list))

\* the lists a model holds and the values a backend hands over
Lists == SeqsUpTo(Strings, MaxListLen)
NoCommaLists == SeqsUpTo(NoCommaStrings, MaxListLen)
ColumnData == {[has |-> TRUE, list |-> l] : l \in Lists} \cup {[has |-> FALSE, list |-> <<>>]}
BackendValues == {None} \cup {JStr(s) : s \in Strings} \cup {JList(l) : l \in NoCommaLists}

\* ------------------------------------------------------------------ state

VARIABLES
    relationship_data,  \* MatSpec: the edge list the pass was given
    scan,               \* MatSpec: root_categories, known_children, relationships
    idx,                \* MatSpec: position of the scan loop in relationship_data
    rootIdx,            \* MatSpec: position of the loop over root_categories
    mapped_records,     \* MatSpec: the rows collected so far
    id_index,           \* MatSpec: the id index, once built
    mpc,                \* MatSpec: "run", "done", "error" ("off" in Spec, SeqSpec)
    tables,             \* self._tables: table name -> [rows, id_index]
    remote,             \* the edge list the remote feed serves now
    uuid,               \* how many ids uuid4() has handed out
    pc,                 \* per thread: the line of records() it is about to run
    frame,              \* per thread: table_name, records, id_index of its call
    asked,              \* history: queries started, per table name
    builds,             \* history: calls of _fetch_and_map_relationship_data, per name
    mapped,             \* history: those of the calls that returned a table, per name
    first,              \* history: what the first such call of a name saw
    filled,             \* history: names whose registered table has rows and index set
    last,               \* history: how the query that finished last ended
    pagination_parameter_name,  \* the backend's configured parameter name
    server,             \* PullSpec: what the remote API serves
    response,           \* the response in hand: content, body, headers
    sent,               \* history: the body of the response as it arrived
    records,            \* what map_records_response returned for it
    next_page_data,     \* what get_next_page_data_from_response returned
    requested,          \* history: the pages requested so far, in order
    ppc,                \* "start", "map", "cursor", "done", "stopped" ("off")
    feed,               \* FeedSpec: the pages of the relationship feed
    data,               \* StrSpec: the column's entry in the model's data
    value,              \* StrSpec: the value the backend holds for the column
    restored,           \* StrSpec: what from_backend made of the value
    spc                 \* StrSpec: "model", "backend", "done", "failed" ("off")

matVars == <<relationship_data, scan, idx, rootIdx, mapped_records, id_index, mpc>>
qryVars == <<tables, remote, uuid, pc, frame, asked, builds, mapped, first, filled, last>>

pageVars == <<pagination_parameter_name, server, response, sent, records,
              next_page_data, requested, ppc, feed>>

strVars == <<data, value, restored, spc>>

vars == <<matVars, qryVars, pageVars, strVars>>

Threads == 1..NumThreads

\* destination names of the model classes queried through the backend
TableNames == {"teams/relationships", "teams/other"}

\* a second forest and a feed with a self-loop below the root
ChangedEdges ==
    << [parent_team_tag |-> "R", child_team_tag |-> "B"],
       [parent_team_tag |-> "B", child_team_tag |-> "C"] >>
LoopEdges ==
    << [parent_team_tag |-> "R", child_team_tag |-> "A"],
       [parent_team_tag |-> "A", child_team_tag |-> "A"] >>

\* what the remote feed may serve
RemoteVersions ==
    { << [parent_team_tag |-> "R", child_team_tag |-> "A"],
         [parent_team_tag |-> "R", child_team_tag |-> "B"],
         [parent_team_tag |-> "A", child_team_tag |-> "C"] >>,
      ChangedEdges, LoopEdges }

NoFrame == [table_name |-> "", records |-> <<>>, id_index |-> <<>>]
NoFirst == [seen |-> FALSE, ok |-> FALSE, edges |-> <<>>, uuid |-> 0, asked |-> 0]
NoLast  == [kind |-> "none", table_name |-> "", rows |-> <<>>,
            unfilled |-> FALSE, racing |-> FALSE]

\* the query side at rest
QryInit ==
    /\ tables = <<>>
    /\ remote \in RemoteVersions
    /\ uuid = 0
    /\ pc = [t \in Threads |-> "idle"]
    /\ frame = [t \in Threads |-> NoFrame]
    /\ asked = [n \in TableNames |-> 0]
    /\ builds = [n \in TableNames |-> 0]
    /\ mapped = [n \in TableNames |-> 0]
    /\ first = [n \in TableNames |-> NoFirst]
    /\ filled = {}
    /\ last = NoLast

\* the query side while one pass is looked at alone
QryOff ==
    /\ tables = <<>>
    /\ remote = <<>>
    /\ uuid = 0
    /\ pc = [t \in Threads |-> "idle"]
    /\ frame = [t \in Threads |-> NoFrame]
    /\ asked = [n \in TableNames |-> 0]
    /\ builds = [n \in TableNames |-> 0]
    /\ mapped = [n \in TableNames |-> 0]
    /\ first = [n \in TableNames |-> NoFirst]
    /\ filled = {}
    /\ last = NoLast

\* the single pass while queries are looked at
MatOff ==
    /\ relationship_data = <<>>
    /\ scan = EmptyScan
    /\ idx = 1
    /\ rootIdx = 1
    /\ mapped_records = <<>>
    /\ id_index = <<>>
    /\ mpc = "off"

NoResponse == [content |-> FALSE, body |-> JDict(<<>>), headers |-> JDict(<<>>)]
NoServer   == [totalPages |-> 0, total |-> None, key |-> ""]
NoRecords  == [err |-> FALSE, rows |-> <<>>]

NoData     == [has |-> FALSE, list |-> <<>>]
NoRestored == [err |-> FALSE, list |-> <<>>]

\* the column while something else is looked at
StrOff ==
    /\ data = NoData
    /\ value = None
    /\ restored = NoRestored
    /\ spc = "off"

\* the record source while the hierarchy is looked at
PageOff ==
    /\ pagination_parameter_name = "page"
    /\ server = NoServer
    /\ response = NoResponse
    /\ sent = NoResponse.body
    /\ records = NoRecords
    /\ next_page_data = EmptyCursor
    /\ requested = <<>>
    /\ ppc = "off"
    /\ feed = <<>>

\* ------------------------------------------------- one materialization pass

MatInit ==
    /\ relationship_data \in EdgeLists
    /\ scan = EmptyScan
    /\ idx = 1
    /\ rootIdx = 1
    /\ mapped_records = <<>>
    /\ id_index = <<>>
    /\ mpc = "run"
    /\ QryOff
    /\ StrOff
    /\ PageOff

\* for relationship in relationship_data: one iteration
ScanEdge ==
    /\ mpc = "run"
    /\ idx <= Len(relationship_data)
    /\ scan' = ScanStep(scan, relationship_data[idx])
    /\ idx' = idx + 1
    /\ UNCHANGED <<relationship_data, rootIdx, mapped_records, id_index, mpc>>
    /\ UNCHANGED <<qryVars, pageVars, strVars>>

\* for root in root_categories: one iteration, the whole recursive walk of the
\* root; a RecursionError leaves the pass without a table
WalkRoot ==
    /\ mpc = "run"
    /\ idx > Len(relationship_data)
    /\ rootIdx <= Len(scan.root_categories)
    /\ LET sub == BuildMappingRecords(scan.root_categories[rootIdx],
                                      scan.relationships, <<>>, Len(mapped_records))
       IN  IF sub.err
           THEN /\ mpc' = "error"
                /\ UNCHANGED <<mapped_records, rootIdx>>
           ELSE /\ mapped_records' = mapped_records \o sub.rows
                /\ rootIdx' = rootIdx + 1
                /\ mpc' = mpc
    /\ UNCHANGED <<relationship_data, scan, idx, id_index>>
    /\ UNCHANGED <<qryVars, pageVars, strVars>>

\* id_index = {...}; return (mapped_records, id_index)
IndexRows ==
    /\ mpc = "run"
    /\ idx > Len(relationship_data)
    /\ rootIdx > Len(scan.root_categories)
    /\ id_index' = BuildIdIndex(mapped_records)
    /\ mpc' = "done"
    /\ UNCHANGED <<relationship_data, scan, idx, rootIdx, mapped_records>>
    /\ UNCHANGED <<qryVars, pageVars, strVars>>

MatNext == ScanEdge \/ WalkRoot \/ IndexRows

MatSpec == MatInit /\ [][MatNext]_vars

\* ------------------------------------------------------ records(), by line

\* a membership test that never finds the table
TableMissing_Always(table_name) == TRUE

\* if table_name not in self._tables
TableMissing(table_name) == table_name \notin DOMAIN tables

\* MemoryTable(query.model_class): no rows, empty id index
EmptyTable == [rows |-> <<>>, id_index |-> <<>>]

\* super().records(query, next_page_data) for a query without conditions: the
\* rows of the table as they are now (nothing for a table that is not there)
SuperRecords(table_name) ==
    IF table_name \in DOMAIN tables THEN tables[table_name].rows ELSE <<>>

\* thread u is between registering table n and having set its rows and index
Building(u, n) ==
    frame[u].table_name = n /\ pc[u] \in {"fetch", "set_rows", "set_index"}

QueriesStarted == asked["teams/relationships"] + asked["teams/other"]

\* what the first call of _fetch_and_map_relationship_data for n saw
NoteFirst(n, ok) ==
    IF first[n].seen THEN first
    ELSE [first EXCEPT ![n] = [seen |-> TRUE, ok |-> ok, edges |-> remote,
                               uuid |-> uuid, asked |-> asked[n]]]

\* an exception leaves records(): the thread's call is over
Raise(t) ==
    /\ pc' = [pc EXCEPT ![t] = "idle"]
    /\ frame' = [frame EXCEPT ![t] = NoFrame]
    /\ last' = [kind |-> "error", table_name |-> frame[t].table_name,
                rows |-> <<>>, unfilled |-> FALSE, racing |-> FALSE]

\* a thread calls records(query): table_name = query.model_class.destination_name()
Start(t, n) ==
    /\ pc[t] = "idle"
    /\ QueriesStarted < MaxQueries
    /\ pc' = [pc EXCEPT ![t] = "check"]
    /\ frame' = [frame EXCEPT ![t] = [NoFrame EXCEPT !.table_name = n]]
    /\ asked' = [asked EXCEPT ![n] = @ + 1]
    /\ UNCHANGED <<tables, remote, uuid, builds, mapped, first, filled, last>>
    /\ UNCHANGED <<matVars, pageVars, strVars>>

\* the same, when no other call is in progress
SeqStart(t, n) ==
    /\ \A u \in Threads : pc[u] = "idle"
    /\ Start(t, n)

\* if table_name not in self._tables:
Check(t) ==
    /\ pc[t] = "check"
    /\ pc' = [pc EXCEPT ![t] =
                 IF TableMissing(frame[t].table_name) THEN "register" ELSE "super"]
    /\ UNCHANGED <<tables, remote, uuid, frame, asked, builds, mapped, first, filled, last>>
    /\ UNCHANGED <<matVars, pageVars, strVars>>

\* self._tables[table_name] = MemoryTable(query.model_class)
Register(t) ==
    /\ pc[t] = "register"
    /\ tables' = (frame[t].table_name :> EmptyTable) @@ tables
    /\ filled' = filled \ {frame[t].table_name}
    /\ pc' = [pc EXCEPT ![t] = "fetch"]
    /\ UNCHANGED <<remote, uuid, frame, asked, builds, mapped, first, last>>
    /\ UNCHANGED <<matVars, pageVars, strVars>>

\* [records, id_index] = self._fetch_and_map_relationship_data(table_name)
FetchReturns(t) ==
    /\ pc[t] = "fetch"
    /\ LET res == FetchAndMap(remote, uuid)
       IN  /\ ~res.err
           /\ frame' = [frame EXCEPT ![t].records = res.records,
                                     ![t].id_index = res.id_index]
           /\ uuid' = res.uuid
    /\ builds' = [builds EXCEPT ![frame[t].table_name] = @ + 1]
    /\ mapped' = [mapped EXCEPT ![frame[t].table_name] = @ + 1]
    /\ first' = NoteFirst(frame[t].table_name, TRUE)
    /\ pc' = [pc EXCEPT ![t] = "set_rows"]
    /\ UNCHANGED <<tables, remote, asked, filled, last>>
    /\ UNCHANGED <<matVars, pageVars, strVars>>

\* the same line when self.cortex_backend.records raises (a response that is
\* not ok, whatever the feed holds) or the walk raises RecursionError (the only
\* outcome when FetchAndMap(remote, uuid).err): the exception leaves records()
FetchRaises(t) ==
    /\ pc[t] = "fetch"
    /\ UNCHANGED uuid
    /\ builds' = [builds EXCEPT ![frame[t].table_name] = @ + 1]
    /\ first' = NoteFirst(frame[t].table_name, FALSE)
    /\ UNCHANGED mapped
    /\ Raise(t)
    /\ UNCHANGED <<tables, remote, asked, filled>>
    /\ UNCHANGED <<matVars, pageVars, strVars>>

\* self._tables[table_name]._rows = records
SetRows(t) ==
    /\ pc[t] = "set_rows"
    /\ tables' = [tables EXCEPT ![frame[t].table_name].rows = frame[t].records]
    /\ pc' = [pc EXCEPT ![t] = "set_index"]
    /\ UNCHANGED <<remote, uuid, frame, asked, builds, mapped, first, filled, last>>
    /\ UNCHANGED <<matVars, pageVars, strVars>>

\* self._tables[table_name]._id_index = id_index
SetIndex(t) ==
    /\ pc[t] = "set_index"
    /\ tables' = [tables EXCEPT ![frame[t].table_name].id_index = frame[t].id_index]
    /\ filled' = filled \cup {frame[t].table_name}
    /\ pc' = [pc EXCEPT ![t] = "super"]
    /\ UNCHANGED <<remote, uuid, frame, asked, builds, mapped, first, last>>
    /\ UNCHANGED <<matVars, pageVars, strVars>>

\* return super().records(query, next_page_data)
Super(t) ==
    /\ pc[t] = "super"
    /\ last' = [kind |-> "rows", table_name |-> frame[t].table_name,
                rows |-> SuperRecords(frame[t].table_name),
                unfilled |-> frame[t].table_name \notin filled,
                racing |-> \E u \in Threads \ {t} : Building(u, frame[t].table_name)]
    /\ pc' = [pc EXCEPT ![t] = "idle"]
    /\ frame' = [frame EXCEPT ![t] = NoFrame]
    /\ UNCHANGED <<tables, remote, uuid, asked, builds, mapped, first, filled>>
    /\ UNCHANGED <<matVars, pageVars, strVars>>

\* the remote side changes the team hierarchy
RemoteChanges ==
    /\ remote' \in RemoteVersions \ {remote}
    /\ UNCHANGED <<tables, uuid, pc, frame, asked, builds, mapped, first, filled, last>>
    /\ UNCHANGED <<matVars, pageVars, strVars>>

Step(t) ==
    \/ Check(t)
    \/ Register(t)
    \/ FetchReturns(t)
    \/ FetchRaises(t)
    \/ SetRows(t)
    \/ SetIndex(t)
    \/ Super(t)

Init == MatOff /\ QryInit /\ PageOff /\ StrOff

Next ==
    \/ \E t \in Threads : (\E n \in TableNames : Start(t, n)) \/ Step(t)
    \/ RemoteChanges

\* queries that may run concurrently
Spec == Init /\ [][Next]_vars

SeqNext ==
    \/ \E t \in Threads : (\E n \in TableNames : SeqStart(t, n)) \/ Step(t)
    \/ RemoteChanges

\* queries one after the other
SeqSpec == Init /\ [][SeqNext]_vars

\* ------------------------------------------------- one response, unwrapped

\* every response the backend may be handed; json() is not called on empty
\* content, so such a response has no body to speak of
Responses ==
    { [content |-> TRUE, body |-> b, headers |-> h] : b \in Bodies, h \in HeaderSets }
    \cup { [content |-> FALSE, body |-> JDict(<<>>), headers |-> h] : h \in HeaderSets }

PageInit ==
    /\ MatOff
    /\ QryOff
    /\ StrOff
    /\ pagination_parameter_name \in ParameterNames
    /\ server = NoServer
    /\ response \in Responses
    /\ sent = response.body
    /\ records = NoRecords
    /\ next_page_data = EmptyCursor
    /\ requested = <<>>
    /\ ppc = "map"
    /\ feed = <<>>

\* records = backend.map_records_response(response.json(), query); a ValueError
\* ends the handling of the response
MapRecords ==
    /\ ppc = "map"
    /\ response.content
    /\ records' = MapRecordsResponse(response.body)
    /\ response' = [response EXCEPT !.body = ResponseAfterMap(@)]
    /\ ppc' = IF records'.err THEN "failed" ELSE "cursor"
    /\ UNCHANGED <<feed, pagination_parameter_name, server, sent, next_page_data, requested>>
    /\ UNCHANGED <<matVars, qryVars, strVars>>

\* next_page = backend.get_next_page_data_from_response(query, response), after
\* the records were unwrapped from the same response
NextPage ==
    /\ ppc = "cursor"
    /\ next_page_data' = GetNextPageData(pagination_parameter_name, response)
    /\ ppc' = "done"
    /\ UNCHANGED <<feed, pagination_parameter_name, server, response, sent, records, requested>>
    /\ UNCHANGED <<matVars, qryVars, strVars>>

\* get_next_page_data_from_response on a response nothing was unwrapped from
NextPageDirect ==
    /\ ppc = "map"
    /\ next_page_data' = GetNextPageData(pagination_parameter_name, response)
    /\ ppc' = "asked"
    /\ UNCHANGED <<feed, pagination_parameter_name, server, response, sent, records, requested>>
    /\ UNCHANGED <<matVars, qryVars, strVars>>

PageNext == MapRecords \/ NextPage \/ NextPageDirect

PageSpec == PageInit /\ [][PageNext]_vars

\* ------------------------------------------------------------ the pull loop

\* requests one run issues before it is cut off
MaxRequests == MaxPage + 3

\* what the API may serve: totalPages pages under a key, with or without total
Servers ==
    [totalPages : 0..(MaxPage + 1), total : TotalValues, key : {"entities", "teams"}]

\* the API's answer to a request for page p: page = p and the fixed totalPages
ServerResponse(srv, p) ==
    [content |-> TRUE,
     body    |-> JDict(<<KV(srv.key, JList(IF p < srv.totalPages
                                           THEN <<Entity1>> ELSE <<>>)),
                         KV("page", JNum(p)),
                         KV("totalPages", JNum(srv.totalPages))>>
                       \o FieldPairs("total", srv.total)),
     headers |-> JDict(<<>>)]

PullInit ==
    /\ MatOff
    /\ QryOff
    /\ StrOff
    /\ pagination_parameter_name \in ParameterNames
    /\ server \in Servers
    /\ response = NoResponse
    /\ sent = NoResponse.body
    /\ records = NoRecords
    /\ next_page_data = EmptyCursor
    /\ requested = <<>>
    /\ ppc = "start"
    /\ feed = <<>>

\* the request for page 0, or for the page the last cursor names
Request ==
    /\ \/ ppc = "start"
       \/ ppc = "done" /\ pagination_parameter_name \in DOMAIN next_page_data
    /\ Len(requested) < MaxRequests
    /\ LET p == IF ppc = "start" THEN 0
                ELSE next_page_data[pagination_parameter_name]
       IN  /\ requested' = Append(requested, p)
           /\ response' = ServerResponse(server, p)
           /\ sent' = ServerResponse(server, p).body
    /\ ppc' = "map"
    /\ UNCHANGED <<feed, pagination_parameter_name, server, records, next_page_data>>
    /\ UNCHANGED <<matVars, qryVars, strVars>>

\* the last cursor names no page: the loop ends
Stop ==
    /\ ppc = "done"
    /\ pagination_parameter_name \notin DOMAIN next_page_data
    /\ ppc' = "stopped"
    /\ UNCHANGED <<feed, pagination_parameter_name, server, response, sent, records,
                   next_page_data, requested>>
    /\ UNCHANGED <<matVars, qryVars, strVars>>

PullNext == Request \/ MapRecords \/ NextPage \/ Stop

PullSpec == PullInit /\ [][PullNext]_vars

\* ------------------------------------------- the relationship feed, fetched

\* most pages the relationship feed is served in
MaxFeedPages == 2

\* the pages a feed is made of
FeedPages ==
    { << [parent_team_tag |-> "R", child_team_tag |-> "A"] >>,
      << [parent_team_tag |-> "A", child_team_tag |-> "B"] >>,
      << [parent_team_tag |-> "B", child_team_tag |-> "C"] >>,
      << [parent_team_tag |-> "R", child_team_tag |-> "A"],
         [parent_team_tag |-> "R", child_team_tag |-> "B"] >> }

\* a feed: its pages in order, at least one
Feeds == {f \in SeqsUpTo(FeedPages, MaxFeedPages) : Len(f) > 0}

\* an edge as the API writes it
EdgeAsJson(e) ==
    JDict(<<KV("childTeamTag", JStr(e.child_team_tag)),
            KV("parentTeamTag", JStr(e.parent_team_tag))>>)

\* the API's answer to a request for page p of the feed
FeedResponse(f, p) ==
    [content |-> TRUE,
     body    |-> JDict(<<KV("edges", JList([i \in 1..Len(f[p + 1]) |->
                                              EdgeAsJson(f[p + 1][i])])),
                         KV("page", JNum(p)),
                         KV("totalPages", JNum(Len(f)))>>),
     headers |-> JDict(<<>>)]

\* a record of the response as relationship.get("child_team_tag", "") and
\* relationship.get("parent_team_tag", "") read it, the API's camelCase keys
\* mapped to the model's column names
RecordAsEdge(record) ==
    [parent_team_tag |-> DictGet(record, "parentTeamTag").s,
     child_team_tag  |-> DictGet(record, "childTeamTag").s]

\* self.cortex_backend.records(Query(model_class=RelationshipModel), {}): one
\* request, for the first page since the query carries no cursor; the records
\* of that response are returned and its cursor is written into the dict that
\* was passed
BackendRecords(f, parameter_name) ==
    LET resp == FeedResponse(f, 0)
        recs == MapRecordsResponse(resp.body)
    IN  [response       |-> resp,
         records        |-> recs,
         next_page_data |-> GetNextPageData(parameter_name, resp)]

FeedInit ==
    /\ relationship_data = <<>>
    /\ scan = EmptyScan
    /\ idx = 1
    /\ rootIdx = 1
    /\ mapped_records = <<>>
    /\ id_index = <<>>
    /\ mpc = "fetch"
    /\ QryOff
    /\ StrOff
    /\ pagination_parameter_name \in ParameterNames
    /\ server = NoServer
    /\ response = NoResponse
    /\ sent = NoResponse.body
    /\ records = NoRecords
    /\ next_page_data = EmptyCursor
    /\ requested = <<>>
    /\ ppc = "off"
    /\ feed \in Feeds

\* relationship_data = self.cortex_backend.records(Query(...), {}): the dict
\* that receives the cursor is the literal {} of the call and is not read again
FetchFeed ==
    /\ mpc = "fetch"
    /\ LET got == BackendRecords(feed, pagination_parameter_name)
       IN  /\ relationship_data' =
                  [i \in 1..Len(got.records.rows) |-> RecordAsEdge(got.records.rows[i])]
           /\ response' = got.response
           /\ sent' = got.response.body
           /\ records' = got.records
           /\ next_page_data' = got.next_page_data
    /\ requested' = Append(requested, 0)
    /\ mpc' = "run"
    /\ UNCHANGED <<scan, idx, rootIdx, mapped_records, id_index>>
    /\ UNCHANGED <<feed, pagination_parameter_name, server, ppc>>
    /\ UNCHANGED <<qryVars, strVars>>

FeedNext == FetchFeed \/ ScanEdge \/ WalkRoot \/ IndexRows

FeedSpec == FeedInit /\ [][FeedNext]_vars

\* ------------------------------------------------- the column, there and back

\* a column value on its way: either the model holds data that is saved and
\* read back, or the backend already holds a value that is read
StrInit ==
    /\ MatOff
    /\ QryOff
    /\ PageOff
    /\ restored = NoRestored
    /\ \/ /\ spc = "model"
          /\ data \in ColumnData
          /\ value = None
       \/ /\ spc = "backend"
          /\ data = NoData
          /\ value \in BackendValues

\* to_backend: without the column's name the data goes on as it came
ToBackend ==
    /\ spc = "model"
    /\ value' = ToBackendValue(data)
    /\ spc' = IF data.has THEN "backend" ELSE "kept"
    /\ UNCHANGED <<data, restored>>
    /\ UNCHANGED <<matVars, qryVars, pageVars>>

\* from_backend
FromBackendStep ==
    /\ spc = "backend"
    /\ restored' = FromBackend(value)
    /\ spc' = IF restored'.err THEN "failed" ELSE "done"
    /\ UNCHANGED <<data, value>>
    /\ UNCHANGED <<matVars, qryVars, pageVars>>

StrNext == ToBackend \/ FromBackendStep

StrSpec == StrInit /\ [][StrNext]_vars


\* ------------------------------------------- what the claims speak about

\* the parent -> child relation of an edge list
EdgeRel(edges) ==
    {<<edges[i].parent_team_tag, edges[i].child_team_tag>> : i \in 1..Len(edges)}

Compose(R, S) ==
    {<<a, c>> \in Nodes \X Nodes : \E b \in Nodes : <<a, b>> \in R /\ <<b, c>> \in S}

RECURSIVE ClosureFrom(_, _)
ClosureFrom(T, R) ==
    LET next == T \cup Compose(T, R)
    IN  IF next = T THEN T ELSE ClosureFrom(next, R)

\* the transitive closure of a relation over Nodes
TransitiveClosure(R) == ClosureFrom(R, R)

\* a forest: every node has at most one parent edge and no node is its own ancestor
IsForest(edges) ==
    /\ \A i, j \in 1..Len(edges) :
           edges[i].child_team_tag = edges[j].child_team_tag => i = j
    /\ \A n \in Nodes : <<n, n>> \notin TransitiveClosure(EdgeRel(edges))

\* the nodes of an edge list, and those with no parent
NodesOf(edges) == {p[1] : p \in EdgeRel(edges)} \cup {p[2] : p \in EdgeRel(edges)}
ChildrenIn(edges) == {p[2] : p \in EdgeRel(edges)}
RootsOf(edges) == NodesOf(edges) \ ChildrenIn(edges)

\* a tree with one root
IsSingleRootTree(edges) == IsForest(edges) /\ Cardinality(RootsOf(edges)) = 1

\* in a forest: the number of edges from d's root to d is the number of its ancestors
DepthOf(edges, d) ==
    Cardinality({a \in Nodes : <<a, d>> \in TransitiveClosure(EdgeRel(edges))})

\* in a forest: the number of edges from ancestor a down to d
Distance(edges, a, d) == DepthOf(edges, d) - DepthOf(edges, a)

\* in a forest: the parent of a node that has one
ParentOf(edges, d) == CHOOSE p \in Nodes : <<p, d>> \in EdgeRel(edges)

RECURSIVE SumOver(_, _)
SumOver(S, f) ==
    IF S = {} THEN 0
    ELSE LET x == CHOOSE y \in S : TRUE IN f[x] + SumOver(S \ {x}, f)

RowIdx == 1..Len(mapped_records)

\* the (ancestor, descendant) pair of a row
PairOf(row) == <<row.parentTeamTag, row.childTeamTag>>

\* a row without its id
Tuple(row) == <<row.parentTeamTag, row.childTeamTag, row.level, row.isParent>>

\* the pass has returned its table
Built == mpc = "done"

\* ---------------------------------------------------------------- claims

AllIdle == \A t \in Threads : pc[t] = "idle"

\* C1: when queries for the same table name race on a table that is not yet
\* built, the materialization runs only once for that name in every
\* interleaving: no second call of _fetch_and_map_relationship_data returns a
\* table for it.
C1_MaterializedOnce == \A n \in TableNames : mapped[n] <= 1

\* C2: while one query is building the table of a name, no other query for the
\* name returns a result computed from the registered table whose rows and id
\* index have not been filled in yet.
C2_NoAnswerFromUnfilledTable ==
    ~(last.kind = "rows" /\ last.racing /\ last.unfilled)

\* C3: when the fetch or the materialization fails in the first query for a
\* table, the failure reaches the caller, the table is not left registered, and
\* a query answered with rows is never answered from a table no build filled.
C3_FailedBuildStaysUnbuilt ==
    /\ (AllIdle /\ last.kind = "error") => last.table_name \notin DOMAIN tables
    /\ last.kind = "rows" => ~last.unfilled

C5_ClosureExact ==
    (Built /\ IsForest(relationship_data)) =>
        /\ {PairOf(mapped_records[i]) : i \in RowIdx}
               = TransitiveClosure(EdgeRel(relationship_data))
        /\ \A i, j \in RowIdx :
               PairOf(mapped_records[i]) = PairOf(mapped_records[j]) => i = j

\* a forest of depth 3 has been materialized: pairs that are no direct edge exist
C5_Witness ==
    /\ Built
    /\ IsForest(relationship_data)
    /\ \E d \in Nodes : DepthOf(relationship_data, d) = 3
    /\ Len(mapped_records) = 6

\* the edge list [(Root1 -> A), (Root1 -> B), (A -> C)], Root1 written R
ExampleEdges ==
    << [parent_team_tag |-> "R", child_team_tag |-> "A"],
       [parent_team_tag |-> "R", child_team_tag |-> "B"],
       [parent_team_tag |-> "A", child_team_tag |-> "C"] >>

\* C6: for the edge list [(Root1 -> A), (Root1 -> B), (A -> C)] the root set is
\* {Root1} and the table has exactly the 4 rows (Root1, A, level 0, direct),
\* (Root1, B, level 0, direct), (Root1, C, level 1, not direct) and
\* (A, C, level 0, direct).
C6_ExampleTable ==
    (Built /\ relationship_data = ExampleEdges) =>
        /\ scan.root_categories = <<"R">>
        /\ Len(mapped_records) = 4
        /\ {Tuple(mapped_records[i]) : i \in RowIdx}
               = { <<"R", "A", 0, 1>>, <<"R", "B", 0, 1>>,
                   <<"R", "C", 1, 0>>, <<"A", "C", 0, 1>> }

\* C7: in every materialized row of a forest, level is the number of edges
\* between the row's ancestor and its descendant minus one, so level is 0
\* exactly in the rows whose ancestor is the descendant's immediate parent.
C7_LevelIsDistanceMinusOne ==
    (Built /\ IsForest(relationship_data)) =>
        \A i \in RowIdx :
            LET row == mapped_records[i]
            IN  /\ row.level = Distance(relationship_data, row.parentTeamTag,
                                        row.childTeamTag) - 1
                /\ (row.level = 0) <=>
                       (PairOf(row) \in EdgeRel(relationship_data))

\* C8: for every forest edge list and every non-root node d, exactly one row
\* with descendant d has isParent = 1, its ancestor is d's immediate parent,
\* and every other row with descendant d has isParent = 0.
C8_OneDirectParentRow ==
    (Built /\ IsForest(relationship_data)) =>
        \A d \in ChildrenIn(relationship_data) :
            LET of_d == {i \in RowIdx : mapped_records[i].childTeamTag = d}
                direct == {i \in of_d : mapped_records[i].isParent = 1}
            IN  /\ Cardinality(direct) = 1
                /\ \A i \in direct :
                       mapped_records[i].parentTeamTag = ParentOf(relationship_data, d)
                /\ \A i \in of_d \ direct : mapped_records[i].isParent = 0

\* a forest where some node has a direct-parent row and another ancestor's row
C8_Witness ==
    /\ Built
    /\ IsForest(relationship_data)
    /\ \E i, j \in RowIdx :
           /\ mapped_records[i].childTeamTag = mapped_records[j].childTeamTag
           /\ mapped_records[i].isParent = 1
           /\ mapped_records[j].isParent = 0

\* C9: for every edge list forming a single-root tree, the number of rows is
\* the sum, over the non-root nodes, of the node's depth (edges from the root).
C9_RowCountIsSumOfDepths ==
    (Built /\ IsSingleRootTree(relationship_data)) =>
        Len(mapped_records)
            = SumOver(ChildrenIn(relationship_data),
                      [d \in Nodes |-> DepthOf(relationship_data, d)])

\* a single-root tree with a branch and a grandchild has been materialized
C9_Witness ==
    /\ Built
    /\ IsSingleRootTree(relationship_data)
    /\ Cardinality(NodesOf(relationship_data)) = 4
    /\ Len(mapped_records) = 4

\* C10 as stated: for a single-root tree every row's level lies in
\* [0, depth - 2], depth being the number of edges from the root to the row's
\* descendant.
C10_LevelWithinDepthMinusTwo ==
    (Built /\ IsSingleRootTree(relationship_data)) =>
        \A i \in RowIdx :
            /\ 0 <= mapped_records[i].level
            /\ mapped_records[i].level
                   <= DepthOf(relationship_data, mapped_records[i].childTeamTag) - 2

\* C10 amended: for a single-root tree every row's level lies in
\* [0, depth - 1], depth being the number of edges from the root to the row's
\* descendant.
C10_LevelWithinDepthMinusOne ==
    (Built /\ IsSingleRootTree(relationship_data)) =>
        \A i \in RowIdx :
            /\ 0 <= mapped_records[i].level
            /\ mapped_records[i].level
                   <= DepthOf(relationship_data, mapped_records[i].childTeamTag) - 1

\* a single-root tree with a row at the upper end of the range, above level 0
C10_Witness ==
    /\ Built
    /\ IsSingleRootTree(relationship_data)
    /\ \E i \in RowIdx :
           /\ mapped_records[i].level >= 1
           /\ mapped_records[i].level
                  = DepthOf(relationship_data, mapped_records[i].childTeamTag) - 1

\* the children of x in the order of their edges in the edge list
ChildrenInOrder(edges, x) ==
    LET mine == SelectSeq(edges, LAMBDA e : e.parent_team_tag = x)
    IN  [i \in 1..Len(mine) |-> mine[i].child_team_tag]

\* the descendants of the rows of ancestor x that are flagged direct and carry
\* the level lvl, in table order
DirectDescendants(rows, x, lvl) ==
    LET mine == SelectSeq(rows, LAMBDA r :
                    r.parentTeamTag = x /\ r.isParent = 1 /\ r.level = lvl)
    IN  [i \in 1..Len(mine) |-> mine[i].childTeamTag]

BodyIsMap == response.content /\ sent.t = "dict"

\* the map has the key, and the number under it
HasField(key) == BodyIsMap /\ \E i \in 1..Len(sent.items) : sent.items[i].k = key
FieldOf(key) == sent.items[CHOOSE i \in 1..Len(sent.items) : sent.items[i].k = key].v.n

\* the cursor was computed for the response in hand
CursorReturned == ppc \in {"done", "asked"}

\* page p of the body has a successor
HasSuccessor ==
    /\ HasField("page")
    /\ HasField("totalPages")
    /\ FieldOf("page") + 1 < FieldOf("totalPages")

\* C13: the cursor names a next page iff the body is a map with page and
\* totalPages present and page + 1 < totalPages; the token is then page + 1
\* under the configured pagination parameter name, and the cursor has no key
\* besides that name, total_count and total_pages.
C13_SuccessorIffPageBelowLast ==
    CursorReturned =>
        /\ (pagination_parameter_name \in DOMAIN next_page_data) <=> HasSuccessor
        /\ HasSuccessor =>
               next_page_data[pagination_parameter_name] = FieldOf("page") + 1
        /\ DOMAIN next_page_data \subseteq
               {pagination_parameter_name, "total_count", "total_pages"}

\* page 1 of 3 under a configured name: the token is 2 under that name
C13_Witness ==
    /\ ppc = "done"
    /\ pagination_parameter_name = "pageNumber"
    /\ HasSuccessor
    /\ FieldOf("page") = 1
    /\ "pageNumber" \in DOMAIN next_page_data
    /\ next_page_data["pageNumber"] = 2

\* C14: total_count and total_pages of the cursor are the body's total and
\* totalPages: each is in the cursor iff the body is a map that has the field,
\* with the field's value (0 included), with or without a successor or a page
\* field and whatever the headers say; a body that is no map, or no body,
\* gives neither.
C14_CountsFromBodyOnly ==
    CursorReturned =>
        /\ ("total_count" \in DOMAIN next_page_data) <=> HasField("total")
        /\ HasField("total") => next_page_data["total_count"] = FieldOf("total")
        /\ ("total_pages" \in DOMAIN next_page_data) <=> HasField("totalPages")
        /\ HasField("totalPages") =>
               next_page_data["total_pages"] = FieldOf("totalPages")

\* a body with total = 0 and totalPages but no page, under headers that carry
\* other counts
C14_Witness ==
    /\ CursorReturned
    /\ response.headers # JDict(<<>>)
    /\ ~HasField("page")
    /\ HasField("total")
    /\ FieldOf("total") = 0
    /\ HasField("totalPages")
    /\ "total_count" \in DOMAIN next_page_data
    /\ next_page_data["total_count"] = 0
    /\ pagination_parameter_name \notin DOMAIN next_page_data

\* pages 0 .. n - 1 in order; page 0 alone when there are no pages
ExpectedPages(n) == [i \in 1..(IF n = 0 THEN 1 ELSE n) |-> i - 1]

\* C15: against a server that answers page p with page = p and a fixed
\* totalPages = N, the pull loop that starts at page 0 and follows the cursor
\* requests pages 0, 1, .., N - 1 in increasing order, each once, and stops
\* when the last response gives no token; for N = 0 it stops after the one
\* request for page 0.
C15_PullsEachPageOnce ==
    LET expected == ExpectedPages(server.totalPages)
    IN  /\ Len(requested) <= Len(expected)
        /\ \A i \in 1..Len(requested) : requested[i] = expected[i]
        /\ ppc # "failed"
        /\ ppc = "stopped" =>
               /\ requested = expected
               /\ pagination_parameter_name \notin DOMAIN next_page_data

\* a loop that stopped after every page of the longest feed
C15_Witness ==
    /\ ppc = "stopped"
    /\ server.totalPages = MaxPage + 1
    /\ requested = ExpectedPages(MaxPage + 1)
    /\ Len(records.rows) = 1

Unwrapped == ppc \in {"cursor", "failed", "done"} /\ server = NoServer

\* the keys of the body that are left once page, totalPages and total are
\* stripped, in key order
Remaining ==
    SelectSeq(sent.items, LAMBDA kv : kv.k \notin {"page", "totalPages", "total"})

\* a record array: a list each item of which is a map
IsRecordArray(v) == v.t = "list" /\ \A i \in 1..Len(v.items) : v.items[i].t = "dict"
HasRecordArray == \E i \in 1..Len(Remaining) : IsRecordArray(Remaining[i].v)
FirstRecordArray ==
    Remaining[CHOOSE i \in 1..Len(Remaining) :
                  /\ IsRecordArray(Remaining[i].v)
                  /\ \A j \in 1..(i - 1) : ~IsRecordArray(Remaining[j].v)].v

\* C17: for a map body the records are the value of the first remaining key, in
\* key order, whose value is a list of maps, whatever the key is named and
\* whatever the remaining keys before it hold.
C17_FirstRecordArrayWins ==
    (Unwrapped /\ BodyIsMap /\ HasRecordArray) =>
        /\ ~records.err
        /\ records.rows = FirstRecordArray.items

C19_EmptyAfterStrippingFails ==
    (Unwrapped /\ BodyIsMap /\ Len(Remaining) = 0) => records.err

\* C20: a map body with remaining keys and no record array is unwrapped to one
\* record, and that record is the stripped map: page, totalPages and total are
\* not in it. Stated for the bodies none of whose remaining keys holds a list
\* (such as {"status": "ok", "total": 50}), where the outcome does not turn on
\* what the framework makes of a list of other things than maps.
C20_SingleRecordIsStripped ==
    (/\ Unwrapped
     /\ BodyIsMap
     /\ Len(Remaining) > 0
     /\ \A i \in 1..Len(Remaining) : Remaining[i].v.t # "list") =>
        /\ ~records.err
        /\ records.rows = <<JDict(Remaining)>>

\* C21: the table is built from all edges of the relationship feed: when the
\* feed is served in more than one page, every edge of every page has its row.
C21_AllPagesContribute ==
    Built =>
        \A p \in 1..Len(feed) : \A i \in 1..Len(feed[p]) :
            \E k \in RowIdx :
                PairOf(mapped_records[k]) =
                    <<feed[p][i].parent_team_tag, feed[p][i].child_team_tag>>

\* C22: from_backend returns the empty list when the backend value is None,
\* instead of failing.
C22_NoneIsEmptyList ==
    (spc \in {"done", "failed"} /\ IsNone(value)) =>
        (~restored.err /\ restored.list = <<>>)

\* a list of strings that was saved and read back
RoundTripped == spc = "done" /\ data.has /\ data.list \in NoCommaLists

\* C23 as stated: every list of comma-free strings, the empty list included,
\* comes back from from_backend(to_backend(..)) as it went in.
C23_RoundTripEveryList == RoundTripped => restored.list = data.list

\* C23: every non-empty list of comma-free strings (lists holding the empty
\* string included) comes back from from_backend(to_backend(..)) as it went in.
C23_RoundTripNonEmpty ==
    (RoundTripped /\ data.list # <<>>) => restored.list = data.list

C23_Witness ==
    /\ RoundTripped
    /\ data.list = << <<>>, <<"a">> >>
    /\ value = JStr(<<",", "a">>)
    /\ restored.list = data.list

\* the rows of one visit start at a row of level 0 and end before the next one
VisitStarts == {p \in RowIdx : mapped_records[p].level = 0}
VisitEnd(p) ==
    CHOOSE q \in p..Len(mapped_records) :
        /\ q = Len(mapped_records) \/ mapped_records[q + 1].level = 0
        /\ \A j \in (p + 1)..q : mapped_records[j].level # 0
\* the ancestors and the node of the visit whose rows start at p
AncestorPath(p) ==
    [i \in 1..(VisitEnd(p) - p + 1) |-> mapped_records[p + i - 1].parentTeamTag]
VisitedNode(p) == mapped_records[p].childTeamTag

\* the rows from p on are those of a visit of some node n with ancestor path
\* a0..ak: k + 1 rows next to each other, row i with ancestor ai, descendant n,
\* level i and isParent 1 iff i = k, the path one of the edge list from a root
RowsOfOneVisit(p) ==
    LET q    == VisitEnd(p)
        path == AncestorPath(p)
        n    == VisitedNode(p)
    IN  /\ \A i \in p..q :
               /\ mapped_records[i].level = i - p
               /\ mapped_records[i].childTeamTag = n
               /\ mapped_records[i].isParent = (IF i = q THEN 1 ELSE 0)
        /\ \E r \in 1..Len(scan.root_categories) : scan.root_categories[r] = path[1]
        /\ \A i \in 1..(Len(path) - 1) :
               <<path[i], path[i + 1]>> \in EdgeRel(relationship_data)
        /\ <<path[Len(path)], n>> \in EdgeRel(relationship_data)

\* the visit whose rows start at p, of a node below the roots' children, comes
\* after the rows of the visit of its parent: the last visit before it that is
\* not deeper is the visit of the parent along the same path
AfterParentsRows(p) ==
    LET path == AncestorPath(p)
        m    == Len(path)
        notDeeper == {b \in VisitStarts : b < p /\ Len(AncestorPath(b)) <= m - 1}
    IN  m >= 2 =>
            /\ notDeeper # {}
            /\ LET b == CHOOSE x \in notDeeper : \A y \in notDeeper : y <= x
               IN  /\ AncestorPath(b) = SubSeq(path, 1, m - 1)
                   /\ VisitedNode(b) = path[m]

\* every child of a root and every child of a visited node is visited in turn
EveryChildVisited ==
    /\ \A r \in 1..Len(scan.root_categories) : \A e \in 1..Len(relationship_data) :
           relationship_data[e].parent_team_tag = scan.root_categories[r] =>
               \E p \in VisitStarts :
                   /\ AncestorPath(p) = <<scan.root_categories[r]>>
                   /\ VisitedNode(p) = relationship_data[e].child_team_tag
    /\ \A b \in VisitStarts : \A e \in 1..Len(relationship_data) :
           relationship_data[e].parent_team_tag = VisitedNode(b) =>
               \E p \in VisitStarts :
                   /\ p > b
                   /\ AncestorPath(p) = Append(AncestorPath(b), VisitedNode(b))
                   /\ VisitedNode(p) = relationship_data[e].child_team_tag

Scanned == SubSeq(relationship_data, 1, idx - 1)

\* C25: after the scan of any edge list, in any order, the root set is the set
\* of node ids that occur as a parent in some edge and as a child in none. It
\* is so after every edge: a node recorded as a root and later seen as a child
\* is out of the set from that edge on, and a node seen as a child before it
\* is seen as a parent never enters it.
C25_RootsAreParentsNeverChildren ==
    /\ {scan.root_categories[i] : i \in 1..Len(scan.root_categories)} = RootsOf(Scanned)
    /\ scan.known_children = ChildrenIn(Scanned)
    /\ \A i, j \in 1..Len(scan.root_categories) :
           scan.root_categories[i] = scan.root_categories[j] => i = j

\* A is recorded as a root by (A -> B), removed by (R -> A) and not added again
\* by (A -> C); B is seen as a child before it is seen as a parent
C25_Witness ==
    /\ relationship_data \in
           { << [parent_team_tag |-> "A", child_team_tag |-> "B"],
                [parent_team_tag |-> "R", child_team_tag |-> "A"],
                [parent_team_tag |-> "A", child_team_tag |-> "C"] >>,
             << [parent_team_tag |-> "R", child_team_tag |-> "B"],
                [parent_team_tag |-> "B", child_team_tag |-> "C"],
                [parent_team_tag |-> "R", child_team_tag |-> "A"] >> }
    /\ idx = 4
    /\ scan.root_categories = <<"R">>

\* the ids of the rows, and ids no row carries
RowIds == {mapped_records[p].id : p \in RowIdx}
OtherIds == (0..(Len(mapped_records) + 2)) \ RowIds

\* C26: after a build the row ids are pairwise distinct, the id index has
\* exactly one entry per row, it maps the id of the row at position p (counted
\* from 0, as enumerate does) to p, and an id that is not in the table is not
\* found in it.
C26_IdIndexMatchesRows ==
    Built =>
        /\ \A p, q \in RowIdx : mapped_records[p].id = mapped_records[q].id => p = q
        /\ Cardinality(DOMAIN id_index) = Len(mapped_records)
        /\ \A p \in RowIdx :
               /\ mapped_records[p].id \in DOMAIN id_index
               /\ id_index[mapped_records[p].id] = p - 1
        /\ \A k \in OtherIds : k \notin DOMAIN id_index

\* two roots with rows of their own: the ids go on over the walks of the roots
C26_Witness ==
    /\ Built
    /\ Len(scan.root_categories) = 2
    /\ Len(mapped_records) = 3
    /\ id_index[mapped_records[3].id] = 2
    /\ OtherIds # {}

\* the rows without their ids, in table order
TuplesOf(rows) == [i \in 1..Len(rows) |-> Tuple(rows[i])]

\* two sequences hold the same items, each as often
SameBag(s, t) ==
    /\ Len(s) = Len(t)
    /\ \A i \in 1..Len(s) :
           Cardinality({j \in 1..Len(s) : s[j] = s[i]}) =
           Cardinality({j \in 1..Len(t) : t[j] = s[i]})

\* the edge list in every order
Reorderings(edges) ==
    {[i \in 1..Len(edges) |-> edges[f[i]]] : f \in Permutations(1..Len(edges))}

\* C27: the order of the edges affects the order of the rows only: for every
\* forest, the build of every permutation of its edge list yields the same
\* multiset of (ancestor, descendant, level, isParent) tuples, and a second
\* build of the same order yields the same sequence of tuples.
C27_EdgeOrderOnlyReordersRows ==
    (Built /\ IsForest(relationship_data)) =>
        /\ \A edges \in Reorderings(relationship_data) :
               LET other == FetchAndMap(edges, 0)
               IN  ~other.err /\ SameBag(TuplesOf(other.records), TuplesOf(mapped_records))
        /\ LET again == FetchAndMap(relationship_data, Len(mapped_records))
           IN  ~again.err /\ TuplesOf(again.records) = TuplesOf(mapped_records)

\* a forest of three edges of which some other order puts the rows in another order
C27_Witness ==
    /\ Built
    /\ IsForest(relationship_data)
    /\ Len(relationship_data) = 3
    /\ Len(mapped_records) = 4
    /\ \E edges \in Reorderings(relationship_data) :
           TuplesOf(FetchAndMap(edges, 0).records) # TuplesOf(mapped_records)

\* no node is its own ancestor
IsAcyclic(edges) ==
    LET below == TransitiveClosure(EdgeRel(edges))
    IN  \A n \in Nodes : <<n, n>> \notin below

RECURSIVE PathsFromTo(_, _, _)
\* in an acyclic edge list: the number of paths from a down to d, a path being
\* a sequence of edges of the list, so that a repeated edge makes two
PathsFromTo(edges, a, d) ==
    LET into == {i \in 1..Len(edges) : edges[i].child_team_tag = d}
    IN  SumOver(into,
            [i \in into |->
                IF edges[i].parent_team_tag = a THEN 1
                ELSE PathsFromTo(edges, a, edges[i].parent_team_tag)])

\* the number of paths from a root down to d
PathsFromRoots(edges, d) ==
    SumOver(RootsOf(edges), [r \in RootsOf(edges) |-> PathsFromTo(edges, r, d)])

\* the number of paths from a root down to d that pass a (or start at a)
PathsFromRootsThrough(edges, a, d) ==
    (IF a \in RootsOf(edges) THEN 1 ELSE PathsFromRoots(edges, a)) * PathsFromTo(edges, a, d)

\* some node is reached from the roots in more than one way
HasSeveralPaths(edges) == \E n \in Nodes : PathsFromRoots(edges, n) > 1

\* C28: an acyclic edge list in which a node is reachable by more than one path
\* (several parents, several roots, a repeated edge) is not rejected and is not
\* deduplicated: the build ends with a table and not with an error, the node
\* is visited once per path from a root, and the table holds the same
\* (ancestor, descendant) pair once per such path.
C28_OneVisitPerPath ==
    (/\ mpc \in {"done", "error"}
     /\ IsAcyclic(relationship_data)
     /\ HasSeveralPaths(relationship_data)) =>
        /\ Built
        /\ \A n \in Nodes :
               Cardinality({p \in VisitStarts : VisitedNode(p) = n}) =
                   PathsFromRoots(relationship_data, n)
        /\ \A a, d \in Nodes :
               Cardinality({k \in RowIdx : PairOf(mapped_records[k]) = <<a, d>>}) =
                   PathsFromRootsThrough(relationship_data, a, d)

\* B is a child of R and of A: it is visited twice and the pair (R, B) is in
\* the table twice
C28_Witness ==
    /\ Built
    /\ relationship_data =
           << [parent_team_tag |-> "R", child_team_tag |-> "A"],
              [parent_team_tag |-> "R", child_team_tag |-> "B"],
              [parent_team_tag |-> "A", child_team_tag |-> "B"] >>
    /\ Cardinality({p \in VisitStarts : VisitedNode(p) = "B"}) = 2
    /\ Cardinality({k \in RowIdx : PairOf(mapped_records[k]) = <<"R", "B">>}) = 2

\* the nodes the walk comes to: the roots and what lies below them
ReachableFromRoots(edges) ==
    LET below == TransitiveClosure(EdgeRel(edges))
        roots == RootsOf(edges)
    IN  roots \cup {n \in Nodes : \E r \in roots : <<r, n>> \in below}

\* some node the walk comes to is its own ancestor (a self-loop included)
HasReachableCycle(edges) ==
    LET below == TransitiveClosure(EdgeRel(edges))
        reached == ReachableFromRoots(edges)
    IN  \E n \in reached : <<n, n>> \in below

\* the pass is over, with a table or with an error
PassEnded == mpc \in {"done", "error"}

\* C29 as stated: the walk terminates for every acyclic edge list, and with a
\* cycle or self-loop reachable from a root it does not terminate.
C29_ReachableCycleNeverEnds ==
    /\ mpc = "error" => ~IsAcyclic(relationship_data)
    /\ PassEnded => ~HasReachableCycle(relationship_data)

\* C29: the walk terminates for every acyclic edge list; with a cycle or
\* self-loop reachable from a root the recursion never returns a table: the pass
\* cannot get to its end other than by the RecursionError the interpreter
\* raises at its recursion limit. (Read from the right: a pass that ended in
\* the error had a list with a cycle, and a pass that has walked every root or
\* has its table had no cycle within reach of a root.)
C29_ReachableCycleEndsInError ==
    /\ mpc = "error" => ~IsAcyclic(relationship_data)
    /\ (Built \/ (idx > Len(relationship_data) /\ rootIdx > Len(scan.root_categories))) =>
           ~HasReachableCycle(relationship_data)

\* R -> A, A -> B, B -> A and R -> A, A -> A: the pass has ended in the error,
\* nothing of the root in the table
C29_Witness ==
    /\ mpc = "error"
    /\ relationship_data \in
           { << [parent_team_tag |-> "R", child_team_tag |-> "A"],
                [parent_team_tag |-> "A", child_team_tag |-> "B"],
                [parent_team_tag |-> "B", child_team_tag |-> "A"] >>,
             << [parent_team_tag |-> "R", child_team_tag |-> "A"],
                [parent_team_tag |-> "A", child_team_tag |-> "A"] >> }
    /\ mapped_records = <<>>

\* the nodes of the edge list the walk never comes to: those of the cycles
\* without a root, and what hangs below them only
Unreachable(edges) == NodesOf(edges) \ ReachableFromRoots(edges)

\* C30: nodes that are not reachable from any root are left out without an
\* error: for a cycle without a root, as in A -> B, B -> A or in A -> A, the
\* root set holds none of its nodes, the build ends without error (where no
\* other cycle lies below a root), and no row of the table has one of its nodes
\* as ancestor or descendant.
C30_UnreachableLeftOut ==
    LET out == Unreachable(relationship_data)
    IN  /\ idx > Len(relationship_data) =>
               \A r \in 1..Len(scan.root_categories) : scan.root_categories[r] \notin out
        /\ \A k \in RowIdx :
               /\ mapped_records[k].parentTeamTag \notin out
               /\ mapped_records[k].childTeamTag \notin out
        /\ (mpc = "error" /\ out # {}) => HasReachableCycle(relationship_data)

\* R -> C beside the cycle A -> B, B -> A: one root, one row, the table built
C30_Witness ==
    /\ Built
    /\ relationship_data =
           << [parent_team_tag |-> "R", child_team_tag |-> "C"],
              [parent_team_tag |-> "A", child_team_tag |-> "B"],
              [parent_team_tag |-> "B", child_team_tag |-> "A"] >>
    /\ Unreachable(relationship_data) = {"A", "B"}
    /\ scan.root_categories = <<"R">>
    /\ Len(mapped_records) = 1

====
